---------------------------- MODULE Spec2Model ----------------------------
(***************************************************************************)
(* Land valuation app (land_valuation_app.py): calculate_land_price, the   *)
(* objective irr_error it hands to scipy's bounded scalar minimizer, and   *)
(* the multi-scenario script around it.                                    *)
(*                                                                         *)
(* Number representation.  The source computes in binary floating point;  *)
(* the model computes in fixed point:                                      *)
(*   - money and areas are whole units (dollars, square feet);             *)
(*   - vacancy, opex_ratio, soft_cost_ratio, rent_growth, equity_ratio,    *)
(*     target_irr and the scenario probabilities are whole percents        *)
(*     (0.05 is 5), cap rates are per mille (0.045 is 45);                 *)
(*   - an internal rate of return is carried in parts per million.         *)
(* A product with a fractional rate is rounded down to the whole unit.     *)
(***************************************************************************)
EXTENDS Integers, Sequences, FiniteSets, TLC

VARIABLES
    args,       \* the arguments of the running call of calculate_land_price
    pc,         \* where that call is: "enter", "objective", "minimize",
                \*   "return", "returned", "raised", or "idle" (no call)
    pf,         \* its locals after lines 24-35
    opt,        \* the state of minimize_scalar(method='bounded')
    probe,      \* the last evaluation of irr_error: x, the list handed to
                \*   npf.irr, the rate it gave and the error returned
    seen,       \* every (x, irr) irr_error has been evaluated at in this call
    result,     \* the OptimizeResult of line 45
    ret,        \* what the call returned (line 47) or the exception raised
    spc,        \* where the script is: "off", "loop", "call", "done"
    sliders,    \* target_irr, hold_years, equity_ratio of lines 67-69
    name,       \* the loop variable of line 73
    todo,       \* the scenarios the loop of line 73 has still to visit
    results,    \* the list of line 66
    expected_land_value,   \* lines 110-114
    prev        \* the records and the expected value of the previous run

vars == <<args, pc, pf, opt, probe, seen, result, ret,
          spc, sliders, name, todo, results, expected_land_value, prev>>

callVars == <<args, pc, pf, opt, probe, seen, result, ret>>
scriptVars == <<spc, sliders, name, todo, results, expected_land_value, prev>>

-----------------------------------------------------------------------------
(* Fixed-point arithmetic *)

RateScale == 1000 * 1000          \* rates in parts per million
PerCent == 10 * 10
PerMille == 10 * PerCent
PpmPerCent == RateScale \div PerCent

\* IEEE not-a-number and infinity, carried as values outside every rate and
\* error the model computes; a comparison with NaN is false (Leq, Geq below)
NaN == 0 - 8 * RateScale
Inf == 8 * RateScale
IsNaN(f) == f = NaN
Leq(f, g) == ~IsNaN(f) /\ ~IsNaN(g) /\ f <= g

Abs(x) == IF x < 0 THEN -x ELSE x
Sign(x) == IF x < 0 THEN -1 ELSE IF x > 0 THEN 1 ELSE 0

\* floor(y * 1000 / c) for y >= 0, without leaving 32 bits
Mul1000Div(y, c) == (y \div c) * 1000 + ((y % c) * 1000) \div c

\* a * b / c for a >= 0, 0 <= b, 0 < c <= 2 * RateScale, rounded down
\* (exactly the floor when b < 1000, at most one below it otherwise)
MulDivNat(a, b, c) ==
    LET hi == a \div c
        lo == a % c
    IN  hi * b + Mul1000Div(lo * (b \div 1000), c) + (lo * (b % 1000)) \div c

\* x * num / den, rounded towards zero
ScaleBy(x, num, den) ==
    IF x < 0 THEN -MulDivNat(-x, num, den) ELSE MulDivNat(x, num, den)

\* amount * pct, with pct a whole percent
Pct(amount, pct) == ScaleBy(amount, pct, PerCent)

\* amount * ((1 + rent_growth) ** i)
RECURSIVE Grown(_, _, _)
Grown(amount, growth, i) ==
    IF i <= 0 THEN amount
    ELSE Grown(ScaleBy(amount, PerCent + growth, PerCent), growth, i - 1)


-----------------------------------------------------------------------------
(* calculate_land_price, lines 24-35: the pro forma *)

buildable_sqft(A) == A.lot_size_sqft * A.far

\* units rounded up instead of down
units_rounded_up(A) == (buildable_sqft(A) + A.apt_size - 1) \div A.apt_size

\* int(buildable_sqft // apt_size); apt_size # 0
units(A) == buildable_sqft(A) \div A.apt_size

gross_rent(A) == A.rent * 12 * units(A)

egi(A) == Pct(gross_rent(A), PerCent - A.vacancy)

\* operating expenses taken on the gross rent instead of the EGI
opex_on_gross(A) == Pct(gross_rent(A), A.opex_ratio)

opex(A) == Pct(egi(A), A.opex_ratio)

noi(A) == egi(A) - opex(A)

noi_exit(A) == Grown(noi(A), A.rent_growth, A.hold_years)

\* noi_exit / exit_cap_rate; exit_cap_rate # 0
exit_value(A) == ScaleBy(noi_exit(A), PerMille, A.exit_cap_rate)

hard(A) == buildable_sqft(A) * A.hard_cost

soft(A) == Pct(hard(A), A.soft_cost_ratio)

total_cost(A) == hard(A) + soft(A)

\* the locals a call holds once line 35 is done
ProForma(A) ==
    [buildable_sqft |-> buildable_sqft(A), units |-> units(A),
     noi |-> noi(A), exit_value |-> exit_value(A),
     hard |-> hard(A), soft |-> soft(A), total_cost |-> total_cost(A)]

-----------------------------------------------------------------------------
(* npf.irr: the rate at which the net present value of the list is zero *)

\* the rates npf.irr is followed over: above -100 %, up to +100 %
RateMin == 1 - RateScale
RateMax == RateScale

\* value at time t-1 of entries t.. of cf, discounted at rate p >= 0
RECURSIVE Pv(_, _, _)
Pv(cf, p, t) ==
    IF t > Len(cf) THEN 0
    ELSE cf[t] + ScaleBy(Pv(cf, p, t + 1), RateScale, RateScale + p)

\* value at time t-1 of entries 1..t of cf, compounded at rate p < 0
RECURSIVE Fv(_, _, _)
Fv(cf, p, t) ==
    IF t = 0 THEN 0
    ELSE ScaleBy(Fv(cf, p, t - 1), RateScale + p, RateScale) + cf[t]

\* the sign of the net present value of cf at rate p
NpvSign(cf, p) == IF p >= 0 THEN Sign(Pv(cf, p, 1)) ELSE Sign(Fv(cf, p, Len(cf)))

\* the largest rate in lo..hi-1 with a non-negative net present value,
\* given NpvSign(cf, lo) >= 0 > NpvSign(cf, hi)
RECURSIVE Bisect(_, _, _)
Bisect(cf, lo, hi) ==
    IF hi - lo <= 1 THEN lo
    ELSE LET mid == (lo + hi) \div 2
         IN  IF NpvSign(cf, mid) >= 0 THEN Bisect(cf, mid, hi)
             ELSE Bisect(cf, lo, mid)

SignChange(cf) ==
    /\ \E i \in 1..Len(cf) : cf[i] < 0
    /\ \E i \in 1..Len(cf) : cf[i] > 0

\* npf.irr(cf): nan when the list has no sign change (no rate solves it)
npf_irr(cf) ==
    IF ~SignChange(cf) THEN NaN
    ELSE IF NpvSign(cf, RateMax) >= 0 THEN RateMax
    ELSE IF NpvSign(cf, RateMin) < 0 THEN RateMin
    ELSE Bisect(cf, RateMin, RateMax)

-----------------------------------------------------------------------------
(* irr_error, lines 37-43 *)

\* line 38 without land_cost
equity_cents_without_land(A, P, land_cost) ==
    LET total == P.total_cost
        whole == total \div PerCent
        part == (total % PerCent) * A.equity_ratio
    IN  <<whole * A.equity_ratio + part \div PerCent, part % PerCent>>

\* lines 38-39: total = total_cost + land_cost; equity = total * equity_ratio,
\* to the cent: <<whole dollars, cents>>
equity_cents(A, P, land_cost) ==
    LET total == P.total_cost + land_cost
        whole == total \div PerCent
        part == (total % PerCent) * A.equity_ratio
    IN  <<whole * A.equity_ratio + part \div PerCent, part % PerCent>>

\* equity in whole dollars, as it enters the list of line 42
equity(A, P, land_cost) == equity_cents(A, P, land_cost)[1]

\* line 40: [noi * ((1 + rent_growth) ** i) * equity_ratio
\*           for i in range(hold_years)]
annual_flows(A, P) ==
    [k \in 1..A.hold_years |->
        Pct(Grown(P.noi, A.rent_growth, k - 1), A.equity_ratio)]

\* line 41 with exit_value scaled by equity_ratio like the annual flows
cash_flows_exit_scaled(A, P) ==
    LET n == A.hold_years
    IN  [annual_flows(A, P) EXCEPT ![n] = @ + Pct(P.exit_value, A.equity_ratio)]

\* line 41: cash_flows[-1] += exit_value; hold_years >= 1
cash_flows(A, P) ==
    LET n == A.hold_years
    IN  [annual_flows(A, P) EXCEPT ![n] = @ + P.exit_value]

\* line 42: the list handed to npf.irr, [-equity] + cash_flows
irr_input(A, P, land_cost) == <<-equity(A, P, land_cost)>> \o cash_flows(A, P)

\* irr - target_irr, the abs of line 43 left out
signed_error(irr, target) ==
    IF IsNaN(irr) THEN NaN ELSE irr - target * PpmPerCent

\* line 43: abs(irr - target_irr); abs(nan - t) is nan
abs_error(irr, target) ==
    IF IsNaN(irr) THEN NaN ELSE Abs(irr - target * PpmPerCent)

\* one evaluation of irr_error at land_cost
Evaluate(A, P, land_cost) ==
    LET cf == irr_input(A, P, land_cost)
        r == npf_irr(cf)
    IN  [x |-> land_cost, flows |-> cf, irr |-> r,
         err |-> abs_error(r, A.target_irr)]

-----------------------------------------------------------------------------
(* The script's constants and defaults, lines 54-64 and 67-69 *)

lot_size_sqft == 10000
far == 3
apt_size == 1000

scenarios == <<"Baseline", "Expansion", "Recession", "Stagflation">>

def_scenario_inputs ==
    [n \in {"Baseline", "Expansion", "Recession", "Stagflation"} |->
       CASE n = "Baseline" ->
              [rent |-> 2800, vacancy |-> 5, opex |-> 35, hard |-> 300,
               soft |-> 25, cap |-> 50, exit_cap |-> 50, growth |-> 2,
               prob |-> 40]
         [] n = "Expansion" ->
              [rent |-> 3100, vacancy |-> 3, opex |-> 32, hard |-> 290,
               soft |-> 22, cap |-> 45, exit_cap |-> 45, growth |-> 4,
               prob |-> 30]
         [] n = "Recession" ->
              [rent |-> 2400, vacancy |-> 8, opex |-> 40, hard |-> 320,
               soft |-> 28, cap |-> 60, exit_cap |-> 65, growth |-> 1,
               prob |-> 20]
         [] OTHER ->
              [rent |-> 2600, vacancy |-> 7, opex |-> 38, hard |-> 350,
               soft |-> 30, cap |-> 55, exit_cap |-> 60, growth |-> 0,
               prob |-> 10]]

\* lines 91-94: the arguments the loop passes for one scenario
CallOf(n, S) ==
    LET inputs == def_scenario_inputs[n]
    IN  [rent |-> inputs.rent, vacancy |-> inputs.vacancy,
         opex_ratio |-> inputs.opex, hard_cost |-> inputs.hard,
         soft_cost_ratio |-> inputs.soft, cap_rate |-> inputs.cap,
         exit_cap_rate |-> inputs.exit_cap, rent_growth |-> inputs.growth,
         hold_years |-> S.hold_years, equity_ratio |-> S.equity_ratio,
         target_irr |-> S.target_irr, lot_size_sqft |-> lot_size_sqft,
         far |-> far, apt_size |-> apt_size]

\* the longest hold period explored (the slider of line 68 goes to 20)
MaxHoldYears == 10

\* slider positions explored: target_irr (line 67, 0.05 to 0.30, default
\* 0.18), hold_years (line 68, from 5), equity_ratio (line 69, 0.1 to 1.0)
SliderSet ==
    [target_irr : {5, 18, 30}, hold_years : {5, MaxHoldYears},
     equity_ratio : {10, 30, 100}]

DefaultSliders == [target_irr |-> 18, hold_years |-> MaxHoldYears, equity_ratio |-> 30]

\* calls the script's widgets can make
WidgetCalls ==
    {CallOf(n, S) : n \in DOMAIN def_scenario_inputs, S \in SliderSet}

\* calls of calculate_land_price by another caller: the Baseline call of the
\* default sliders with one argument changed
OtherCalls ==
    LET B == CallOf("Baseline", DefaultSliders)
    IN  {[B EXCEPT !.apt_size = v] : v \in {0, 900, 7000, 40000}}
        \cup {[B EXCEPT !.lot_size_sqft = v] : v \in {0, 250}}
        \cup {[B EXCEPT !.exit_cap_rate = 0]}
        \cup {[B EXCEPT !.hold_years = v] : v \in {0, 1}}
        \cup {[B EXCEPT !.equity_ratio = 0]}
        \cup {[B EXCEPT !.opex_ratio = v] : v \in {0, 100}}
        \cup {[B EXCEPT !.far = 0]}
        \cup {[B EXCEPT !.cap_rate = 0]}

CallSet == WidgetCalls \cup OtherCalls

-----------------------------------------------------------------------------
(* minimize_scalar(irr_error, bounds=(0, 50_000_000), method='bounded'),    *)
(* line 45.  The library's bounded method is Brent's: golden-section steps *)
(* with a parabolic-interpolation shortcut.  The model takes the golden-   *)
(* section step every time (the step the library falls back to), on whole  *)
(* dollars, with the library's bracket bookkeeping, stopping rule and      *)
(* status flags.  Its cap of 500 evaluations is never reached: the bracket *)
(* shrinks from 50,000,000 to the tolerance in under 60 steps.             *)

UpperBound == 50000000

\* tol1 = sqrt_eps * abs(xf) + xatol / 3.0, below one dollar on the whole
\* bracket: the smallest step is one whole dollar
tol1 == 1
tol2 == 2 * tol1

\* golden_mean * e, golden_mean = 0.5 * (3.0 - sqrt(5.0))
Golden(e) == ScaleBy(e, 381966, RateScale)

Max(x, y) == IF x >= y THEN x ELSE y

Unset == [set |-> FALSE]

\* while (np.abs(xf - xm) > (tol2 - 0.5 * (b - a))), with xm = 0.5 * (a + b)
Searching(o) == Abs(2 * o.xf - (o.a + o.b)) > 2 * tol2 - (o.b - o.a)

\* the next point: a golden-section step into the larger part of the bracket
NextPoint(o) ==
    LET e == IF 2 * o.xf >= o.a + o.b THEN o.a - o.xf ELSE o.b - o.xf
        rat == Golden(e)
        si == IF rat >= 0 THEN 1 ELSE -1
    IN  o.xf + si * Max(Abs(rat), tol1)

\* the bracket and the best point after evaluating fu at x
Update(o, x, fu) ==
    IF Leq(fu, o.fx)
    THEN [a |-> IF x >= o.xf THEN o.xf ELSE o.a,
          b |-> IF x >= o.xf THEN o.b ELSE o.xf,
          xf |-> x, fx |-> fu, fu |-> fu, num |-> o.num + 1]
    ELSE [a |-> IF x < o.xf THEN x ELSE o.a,
          b |-> IF x < o.xf THEN o.b ELSE x,
          xf |-> o.xf, fx |-> o.fx, fu |-> fu, num |-> o.num + 1]

\* flag = 2 when xf, fx or fu is nan; success = (flag == 0)
Status(o) == IF IsNaN(o.fx) \/ IsNaN(o.fu) THEN 2 ELSE 0

OptimizeResult(o) ==
    [x |-> o.xf, fun |-> o.fx, status |-> Status(o),
     success |-> (Status(o) = 0), nfev |-> o.num]

-----------------------------------------------------------------------------
(* One call of calculate_land_price, lines 8-47 *)

Raise(exception, line) ==
    /\ pc' = "raised"
    /\ ret' = [kind |-> "raise", exception |-> exception, line |-> line]

\* lines 24-35; a zero apt_size fails the floor division of line 25 and a
\* zero exit_cap_rate the division of line 31
Enter ==
    /\ pc = "enter"
    /\ IF args.apt_size = 0
       THEN Raise("ZeroDivisionError", 25) /\ UNCHANGED pf
       ELSE IF args.exit_cap_rate = 0
       THEN Raise("ZeroDivisionError", 31) /\ UNCHANGED pf
       ELSE pf' = ProForma(args) /\ pc' = "objective" /\ UNCHANGED ret
    /\ UNCHANGED <<args, opt, probe, seen, result>>
    /\ UNCHANGED scriptVars

\* line 45, up to the loop: the first evaluation, at the golden-section point
\* of the bounds.  With hold_years < 1 the list of line 40 is empty and
\* cash_flows[-1] of line 41 raises IndexError out of the minimizer.
FirstEvaluation ==
    /\ pc = "objective"
    /\ IF args.hold_years < 1
       THEN Raise("IndexError", 41) /\ UNCHANGED <<opt, probe, seen>>
       ELSE LET x == 0 + Golden(UpperBound - 0)
                ev == Evaluate(args, pf, x)
            IN  /\ probe' = ev
                /\ seen' = {[x |-> ev.x, irr |-> ev.irr]}
                /\ opt' = [a |-> 0, b |-> UpperBound, xf |-> x,
                           fx |-> ev.err, fu |-> Inf, num |-> 1]
                /\ pc' = "minimize"
                /\ UNCHANGED ret
    /\ UNCHANGED <<args, pf, result>>
    /\ UNCHANGED scriptVars

\* one pass of the minimizer's loop
Step ==
    /\ pc = "minimize"
    /\ Searching(opt)
    /\ LET ev == Evaluate(args, pf, NextPoint(opt))
       IN  /\ probe' = ev
           /\ seen' = seen \cup {[x |-> ev.x, irr |-> ev.irr]}
           /\ opt' = Update(opt, ev.x, ev.err)
    /\ UNCHANGED <<args, pc, pf, result, ret>>
    /\ UNCHANGED scriptVars

\* the loop ends; the minimizer returns its OptimizeResult
Finish ==
    /\ pc = "minimize"
    /\ ~Searching(opt)
    /\ result' = OptimizeResult(opt)
    /\ pc' = "return"
    /\ UNCHANGED <<args, pf, opt, probe, seen, ret>>
    /\ UNCHANGED scriptVars

\* line 46 without its fallback
land_price_estimate(r) == r.x

\* line 46 with its condition inverted
land_price_inverted(r) == IF r.success THEN 0 ELSE r.x

\* line 46: land_price = result.x if result.success else 0
land_price(r) == IF r.success THEN r.x ELSE 0

\* line 47
ReturnValue(r, P) ==
    [kind |-> "tuple", land_price |-> land_price(r),
     buildable_sqft |-> P.buildable_sqft, units |-> P.units,
     noi |-> P.noi, exit_value |-> P.exit_value]

Return ==
    /\ pc = "return"
    /\ ret' = ReturnValue(result, pf)
    /\ pc' = "returned"
    /\ UNCHANGED <<args, pf, opt, probe, seen, result>>
    /\ UNCHANGED scriptVars

Call == Enter \/ FirstEvaluation \/ Step \/ Finish \/ Return

\* the state of a call that has not started
Fresh(A) ==
    /\ args = A
    /\ pc = "enter"
    /\ pf = Unset
    /\ opt = Unset
    /\ probe = Unset
    /\ seen = {}
    /\ result = Unset
    /\ ret = [kind |-> "none"]

ScriptOff ==
    /\ spc = "off"
    /\ sliders = Unset
    /\ name = ""
    /\ todo = {}
    /\ results = <<>>
    /\ expected_land_value = 0
    /\ prev = Unset

\* one call of calculate_land_price on any of the explored arguments
Init == (\E A \in CallSet : Fresh(A)) /\ ScriptOff

Next == Call

Spec == Init /\ [][Next]_vars

-----------------------------------------------------------------------------
(* Properties of one call *)

Evaluated == pc \in {"minimize", "return", "returned"}
Ended == pc \in {"returned", "raised"}

\* the arguments with which lines 24-43 compute without raising
Computable(A) == A.apt_size # 0 /\ A.exit_cap_rate # 0 /\ A.hold_years >= 1

\* the rate of return of the pro forma at land_cost
IrrAt(A, land_cost) == Evaluate(A, ProForma(A), land_cost).irr

TargetPpm(A) == A.target_irr * PpmPerCent

\* the tolerance on the rate of return: 1e-6, plus one unit of rounding
Tolerance == RateScale \div (1000 * 1000) + 1

\* target_irr lies between the rates of return at the two bounds
Achievable(A) ==
    /\ Computable(A)
    /\ ~IsNaN(IrrAt(A, 0))
    /\ IrrAt(A, 0) >= TargetPpm(A)
    /\ IrrAt(A, UpperBound) <= TargetPpm(A)

BelowTargetAtZero(A) ==
    /\ Computable(A)
    /\ ~IsNaN(IrrAt(A, 0))
    /\ IrrAt(A, 0) < TargetPpm(A)

AboveTargetAtUpperBound(A) ==
    /\ Computable(A)
    /\ ~IsNaN(IrrAt(A, UpperBound))
    /\ IrrAt(A, UpperBound) > TargetPpm(A)

C4_FinitePenalty ==
    Evaluated => (~IsNaN(probe.err) /\ probe.err < Inf)

\* the preconditions of section 4.1 of the specification
Violation(A) ==
    \/ A.lot_size_sqft <= 0
    \/ A.far <= 0
    \/ A.apt_size <= 0
    \/ A.hold_years < 1
    \/ A.cap_rate <= 0
    \/ A.exit_cap_rate <= 0
    \/ A.equity_ratio <= 0

\* C5: a call whose arguments violate a precondition ends by raising
\* InvalidAssumptions: it returns no result and raises nothing else.
C5_InvalidAssumptions ==
    (Ended /\ Violation(args)) =>
        /\ pc = "raised"
        /\ ret.exception = "InvalidAssumptions"

\* C6: units is the floor of buildable_sqft / apt_size, and a call with
\* valid arguments and buildable_sqft < apt_size returns, without raising,
\* units = 0, noi = 0 and exit_value = 0.
C6_FloorUnits ==
    /\ (Evaluated /\ args.apt_size > 0) =>
          /\ pf.units * args.apt_size <= pf.buildable_sqft
          /\ pf.buildable_sqft < (pf.units + 1) * args.apt_size
    /\ (Ended /\ ~Violation(args)
          /\ args.lot_size_sqft * args.far < args.apt_size) =>
          /\ pc = "returned"
          /\ ret.units = 0
          /\ ret.noi = 0
          /\ ret.exit_value = 0

C6_Witness ==
    /\ pc = "returned"
    /\ ~Violation(args)
    /\ args.lot_size_sqft * args.far < args.apt_size
    /\ args.lot_size_sqft * args.far > 0
    /\ ret.units = 0

\* the concrete scenario of section 8 of the specification
IsBaseline(A) ==
    /\ A.lot_size_sqft = 10000 /\ A.far = 3 /\ A.apt_size = 1000
    /\ A.rent = 2800 /\ A.vacancy = 5 /\ A.opex_ratio = 35
    /\ A.hard_cost = 300 /\ A.soft_cost_ratio = 25

ConstructionFields == {"hard", "soft", "total_cost"}

\* C7 as stated: the Baseline pro forma has buildable area 30000, 30 units,
\* hard costs 9,000,000, soft costs 2,250,000, total construction cost
\* 11,250,000 and a year-1 NOI of 621,540, and the record returned carries
\* the construction-cost figures.
C7_BaselineAsStated ==
    (pc = "returned" /\ IsBaseline(args)) =>
        /\ pf.buildable_sqft = 30000
        /\ pf.units = 30
        /\ pf.hard = 9000000
        /\ pf.soft = 2250000
        /\ pf.total_cost = 11250000
        /\ pf.noi = 621540
        /\ ConstructionFields \subseteq DOMAIN ret

\* C7 as amended: the year-1 NOI is 2800 x 12 x 30 x 0.95 x 0.65 = 622,440,
\* and the tuple returned carries buildable_sqft, units and noi (with
\* land_price and exit_value) but none of the construction-cost figures.
C7_Baseline ==
    (pc = "returned" /\ IsBaseline(args)) =>
        /\ pf.buildable_sqft = 30000
        /\ pf.units = 30
        /\ pf.hard = 9000000
        /\ pf.soft = 2250000
        /\ pf.total_cost = 11250000
        /\ pf.noi = 622440
        /\ 100 * pf.noi = ((2800 * 12 * 30 * 95) \div 100) * 65
        /\ ret.buildable_sqft = 30000
        /\ ret.units = 30
        /\ ret.noi = 622440
        /\ ConstructionFields \cap DOMAIN ret = {}

C7_Witness ==
    /\ pc = "returned"
    /\ IsBaseline(args)
    /\ args.hold_years = 10 /\ args.equity_ratio = 30 /\ args.target_irr = 18
    /\ ret.land_price \in 1..UpperBound

\* C8 holds the pro forma fixed with positive NOI, exit value and equity ratio
Positive(A, P) == P.noi > 0 /\ P.exit_value > 0 /\ A.equity_ratio > 0

\* the net present value, <<whole dollars, cents>>, at rate p >= 0 of the
\* list of line 42 at land_cost, inflows being the value of its entries 1..
NetPresentValue(A, P, land_cost, inflows) ==
    LET e == equity_cents(A, P, land_cost)
    IN  IF e[2] = 0 THEN <<inflows - e[1], 0>>
        ELSE <<inflows - e[1] - 1, PerCent - e[2]>>

Less(m, n) == m[1] < n[1] \/ (m[1] = n[1] /\ m[2] < n[2])

\* the discount rates C8 is checked at: 0, target_irr and 100 %
DiscountRates(A) == {0, TargetPpm(A), RateMax}

\* C8: with positive NOI, exit value and equity ratio, of any two land costs
\* a < b at which irr_error has been evaluated, b has the strictly lower net
\* present value at every fixed discount rate (so the two are never both
\* zero: at most one land cost achieves a given rate), and, in the parts
\* per million rates are carried in, never the higher rate of return.
C8_Monotone ==
    (Evaluated /\ Positive(args, pf)) =>
        \A p \in DiscountRates(args) :
            LET inflows == Pv(<<0>> \o cash_flows(args, pf), p, 1)
                here == NetPresentValue(args, pf, probe.x, inflows)
            IN  \A q \in seen :
                    LET there == NetPresentValue(args, pf, q.x, inflows)
                    IN  /\ q.x < probe.x =>
                            /\ Less(here, there)
                            /\ ~(here = <<0, 0>> /\ there = <<0, 0>>)
                            /\ probe.irr <= q.irr
                        /\ probe.x < q.x =>
                            /\ Less(there, here)
                            /\ ~(here = <<0, 0>> /\ there = <<0, 0>>)
                            /\ q.irr <= probe.irr

C8_Witness ==
    /\ Evaluated
    /\ Positive(args, pf)
    /\ \E q \in seen : q.x < probe.x /\ q.x + 1 = probe.x
    /\ \E q \in seen : q.x < probe.x /\ probe.irr < q.irr
    /\ args.equity_ratio < PerCent

\* C10: the list handed to npf.irr has hold_years + 1 entries: first the
\* outflow -(total_cost + land_cost) * equity_ratio, then for each year i of
\* range(hold_years) the flow noi * (1 + rent_growth)^i * equity_ratio, the
\* last of them with the whole exit_value added, not scaled by equity_ratio.
C10_CashFlows ==
    Evaluated =>
        LET n == args.hold_years
            f == probe.flows
        IN  /\ Len(f) = n + 1
            /\ f[1] = -Pct(pf.total_cost + probe.x, args.equity_ratio)
            /\ \A i \in 0..(n - 1) :
                  f[i + 2] =
                      Pct(Grown(pf.noi, args.rent_growth, i), args.equity_ratio)
                      + (IF i = n - 1 THEN pf.exit_value ELSE 0)

C10_Witness ==
    /\ Evaluated
    /\ args.equity_ratio \in 1..(PerCent - 1)
    /\ pf.exit_value > 0
    /\ Len(probe.flows) = args.hold_years + 1
    /\ probe.flows[Len(probe.flows)] > pf.exit_value
    /\ probe.flows[1] < 0

-----------------------------------------------------------------------------
(* The script, lines 58-114.  Streamlit runs it from the top on every      *)
(* interaction; Rerun is the next run, with the widgets as they were.      *)
(* The loop of line 73 visits the scenarios in the order of line 58.  The  *)
(* first run of the model does; the run after it visits them in any order. *)

ScenarioNames == {scenarios[i] : i \in 1..Len(scenarios)}

\* line 66: results = [], whatever the list held before
RunResultsKept(old) == old

RunResults(old) == <<>>

\* lines 96-104: the record appended for one scenario
ResultRecord(n, r) ==
    [Scenario |-> n, Probability |-> def_scenario_inputs[n].prob,
     Land_Value |-> r.land_price, Units |-> r.units,
     Buildable_SqFt |-> r.buildable_sqft, NOI |-> r.noi,
     Exit_Value |-> r.exit_value]

\* summary_df["Probability"].sum() over rows i..
RECURSIVE sum_prob(_, _)
sum_prob(rows, i) ==
    IF i > Len(rows) THEN 0 ELSE rows[i].Probability + sum_prob(rows, i + 1)

\* (summary_df["Land_Value"] * summary_df["Probability"]).sum() over rows i..
RECURSIVE sum_weighted(_, _)
sum_weighted(rows, i) ==
    IF i > Len(rows) THEN 0
    ELSE Pct(rows[i].Land_Value, rows[i].Probability)
         + sum_weighted(rows, i + 1)

\* lines 110-114
ExpectedLandValue(rows) ==
    IF sum_prob(rows, 1) > 0 THEN sum_weighted(rows, 1) ELSE 0

NoCall ==
    /\ pc = "idle"
    /\ args = Unset
    /\ pf = Unset
    /\ opt = Unset
    /\ probe = Unset
    /\ seen = {}
    /\ result = Unset
    /\ ret = [kind |-> "none"]

\* lines 66-69, the state as the loop of line 73 begins
ScriptStart ==
    /\ spc = "loop"
    /\ sliders = DefaultSliders
    /\ name = ""
    /\ todo = ScenarioNames
    /\ results = RunResults(<<>>)
    /\ expected_land_value = 0
    /\ prev = Unset

\* the scenarios the loop may visit next
NextUp ==
    IF prev.set THEN todo
    ELSE {scenarios[i] : i \in {j \in 1..Len(scenarios) :
                                   j = Len(results) + 1}}

\* lines 73-94: the loop takes a scenario and calls calculate_land_price
BeginCall ==
    /\ spc = "loop"
    /\ \E n \in NextUp \cap todo :
          /\ name' = n
          /\ args' = CallOf(n, sliders)
    /\ pc' = "enter"
    /\ pf' = Unset
    /\ opt' = Unset
    /\ probe' = Unset
    /\ seen' = {}
    /\ result' = Unset
    /\ ret' = [kind |-> "none"]
    /\ spc' = "call"
    /\ UNCHANGED <<sliders, todo, results, expected_land_value, prev>>

\* lines 96-104: the call has returned; its record is appended
AppendResult ==
    /\ spc = "call"
    /\ pc = "returned"
    /\ results' = Append(results, ResultRecord(name, ret))
    /\ todo' = todo \ {name}
    /\ spc' = "loop"
    /\ pc' = "idle"
    /\ UNCHANGED <<args, pf, opt, probe, seen, result, ret>>
    /\ UNCHANGED <<sliders, name, expected_land_value, prev>>

\* lines 109-114, once the loop is over
Summarize ==
    /\ spc = "loop"
    /\ todo = {}
    /\ expected_land_value' = ExpectedLandValue(results)
    /\ spc' = "done"
    /\ UNCHANGED callVars
    /\ UNCHANGED <<sliders, name, todo, results, prev>>

\* the script runs again; prev keeps what the run before it showed
Rerun ==
    /\ spc = "done"
    /\ ~prev.set
    /\ prev' = [set |-> TRUE, results |-> results,
                expected_land_value |-> expected_land_value]
    /\ results' = RunResults(results)
    /\ todo' = ScenarioNames
    /\ expected_land_value' = 0
    /\ spc' = "loop"
    /\ UNCHANGED callVars
    /\ UNCHANGED <<sliders, name>>

InitScript == NoCall /\ ScriptStart

NextScript ==
    \/ (spc = "loop" /\ todo # {} /\ BeginCall)
    \/ (spc = "call" /\ Call)
    \/ AppendResult
    \/ Summarize
    \/ Rerun

SpecScript == InitScript /\ [][NextScript]_vars

\* the record a run appended for scenario n
RowsOf(rows, n) == {rows[i] : i \in {j \in 1..Len(rows) : rows[j].Scenario = n}}

=============================================================================
